---- MODULE Spec2Model ----
(***************************************************************************)
(* Request representation, content addressing and the caching executor of  *)
(* lm_eval/base.py (req_ret_lens, hash_args, CachingLM, Request,           *)
(* RequestFactory).                                                        *)
(*                                                                         *)
(* Characters are their code points, byte strings are sequences of byte    *)
(* values.  The backend (self.lm) and the callers are external: their      *)
(* inputs are drawn from small sets.                                       *)
(***************************************************************************)
EXTENDS Integers, Sequences, FiniteSets, TLC

\* ------------------------------------------------------------ bounds
\* longest batch handed to one executor call
MaxLen == 3
\* backend results are the opaque values 1..MaxValue (and None)
MaxValue == 2
\* longest argument tuple and longest string drawn for hash_args
MaxArgs == 2
MaxStrLen == 2
\* largest index a task passes to Request.__getitem__
MaxIndex == 2
\* most Request objects alive at once
MaxObjs == 2
MaxOpLen == 2
MaxConcLen == 2

\* ------------------------------------------------------------ values
\* Python's None, the "not yet fetched" marker of res (base.py:309)
None == 0
Values == 1..MaxValue
Results == Values \cup {None}

\* the byte b"\0" appended after every argument (base.py:283)
NUL == 0

\* argument values: str, int, and one value that is neither (a float)
StrArg(s) == [t |-> "str", s |-> s]
IntArg(n) == [t |-> "int", n |-> n]
FloatArg == [t |-> "float", f |-> <<49, 46, 53>>]

\* SeqsUpTo(S, n): the sequences over S of length 0..n
SeqsUpTo(S, n) == UNION {[1..k -> S] : k \in 0..n}

Min(a, b) == IF a <= b THEN a ELSE b

\* ------------------------------------------------------------ hash_args
\* str(n) for an int: decimal digits, '-' (45) before a negative number
RECURSIVE Digits(_)
Digits(n) == IF n < 10 THEN <<48 + n>> ELSE Digits(n \div 10) \o <<48 + (n % 10)>>

str(arg) ==
    IF arg.t = "str" THEN arg.s
    ELSE IF arg.t = "float" THEN arg.f
    ELSE IF arg.n < 0 THEN <<45>> \o Digits(0 - arg.n) ELSE Digits(arg.n)

\* .encode(): UTF-8 of a sequence of code points below 2048
RECURSIVE encode(_)
encode(s) ==
    IF s = <<>> THEN <<>>
    ELSE (IF Head(s) < 128 THEN <<Head(s)>>
          ELSE <<192 + (Head(s) \div 64), 128 + (Head(s) % 64)>>) \o encode(Tail(s))

\* the type check left out: every argument passes
AnyType(arg) == arg.t \in {"str", "int", "float"}

\* isinstance(arg, str) or isinstance(arg, int)
IsStrOrInt(arg) == arg.t \in {"str", "int"}

\* dat after the loop over args: str(arg).encode() + b"\0" for each arg
RECURSIVE Serialize(_)
Serialize(args) ==
    IF args = <<>> THEN <<>>
    ELSE encode(str(Head(args))) \o <<NUL>> \o Serialize(Tail(args))

\* hashlib.sha256(dat).hexdigest(): a fixed-length digest, taken to be
\* injective, so it is represented by the bytes it digests
sha256_hexdigest(dat) == <<"sha256", dat>>

\* hash_args(args): the assert fails on the first argument that is neither
\* a str nor an int (raised), otherwise the digest of the serialization
hash_args(args) ==
    IF \A i \in 1..Len(args) : IsStrOrInt(args[i])
    THEN [raised |-> FALSE, hex |-> sha256_hexdigest(Serialize(args))]
    ELSE [raised |-> TRUE, hex |-> sha256_hexdigest(<<>>)]

\* hsh = attr + '_' + hash_args(req): the digest has a fixed length, so the
\* string splits back uniquely into its three parts
\* the key made of the digest alone
CacheKeyNoAttr(attr, req) == <<"", "_", hash_args(req).hex>>

CacheKey(attr, req) == <<attr, "_", hash_args(req).hex>>

\* ------------------------------------------------------------ state
\* the callers of CachingLM; the source runs one caller at a time
Procs == {"p1", "p2"}

\* the attribute names forwarded to the backend
Attrs == {"loglikelihood", "greedy_until"}

\* the argument tuples the callers draw their batches from: ("a",), ("b",)
\* and one tuple holding a float
ReqA == <<StrArg(<<97>>)>>
ReqB == <<StrArg(<<98>>)>>
ReqBad == <<StrArg(<<97>>), FloatArg>>
ReqPool == {ReqA, ReqB, ReqBad}

VARIABLES
    dbdict,          \* self.dbdict: cache key -> stored value
    pc,              \* per caller: idle, lookup, reinsert, returned, raised
    attr,            \* per caller: the attribute name of the call
    requests,        \* per caller: the batch
    res,             \* per caller: the output list
    remaining_reqs,  \* per caller: the misses
    rem_res,         \* per caller: the backend's response
    resptr,          \* per caller: the slot pointer (0-based)
    zi,              \* per caller: position of the zip iteration (1-based)
    err,             \* per caller: the exception that ended the call
    db0,             \* history: the store when the call started
    invoked,         \* history: the call has invoked the backend operation
    prev,            \* history: the call this one repeats, if any
    submitted,       \* history: per caller, the list handed to the backend
    wrote,           \* history: per caller, the keys the call has written
    seen,            \* history: per caller, what the store held for each
                     \* request when it was looked up
    origin,          \* history: the attribute name each key was written for
    cur,             \* the Request a task holds (<<>>: none yet)
    made,            \* the Requests the last Request operation produced
    rqErr,           \* the exception the last Request operation raised
    rqOp,            \* history: the last Request operation and its inputs
    hargs,           \* the two argument tuples given to hash_args
    hkeys,           \* what hash_args gave for them (<<>>: not yet hashed)
    objs,            \* the Request objects alive; an object's identity is
                     \* its position
    cmp              \* the last comparison of two of them and its outcome

histVars == <<submitted, wrote, seen, origin>>

execVars == <<dbdict, pc, attr, requests, res, remaining_reqs, rem_res, resptr,
              zi, err, db0, invoked, prev, histVars>>

reqVars == <<cur, made, rqErr, rqOp>>
hashVars == <<hargs, hkeys>>

eqVars == <<objs, cmp>>

vars == <<execVars, reqVars, hashVars, eqVars>>

\* SqliteDict(cache_db) on a fresh file: no key
EmptyStore == [k \in {} |-> None]

NoPrev == [set |-> FALSE, res |-> <<>>, invoked |-> FALSE, db0 |-> EmptyStore]

\* CachingLM.__init__: the store as opened; no call is running
InitExec ==
    /\ dbdict = EmptyStore
    /\ pc = [p \in Procs |-> "idle"]
    /\ attr = [p \in Procs |-> "loglikelihood"]
    /\ requests = [p \in Procs |-> <<>>]
    /\ res = [p \in Procs |-> <<>>]
    /\ remaining_reqs = [p \in Procs |-> <<>>]
    /\ rem_res = [p \in Procs |-> <<>>]
    /\ resptr = [p \in Procs |-> 0]
    /\ zi = [p \in Procs |-> 1]
    /\ err = [p \in Procs |-> "none"]
    /\ db0 = [p \in Procs |-> EmptyStore]
    /\ invoked = [p \in Procs |-> FALSE]
    /\ prev = [p \in Procs |-> NoPrev]
    /\ submitted = [p \in Procs |-> <<>>]
    /\ wrote = [p \in Procs |-> <<>>]
    /\ seen = [p \in Procs |-> <<>>]
    /\ origin = [k \in {} |-> ""]

\* ------------------------------------------------------------ CachingLM
\* the store is made anew around the written entry
DbSetFresh(db, hsh, r) == [k \in {hsh} |-> r]

\* self.dbdict[hsh] = r
DbSet(db, hsh, r) ==
    [k \in DOMAIN db \cup {hsh} |-> IF k = hsh THEN r ELSE db[k]]

\* the scan that steps past the slot the pointer is at before it looks
ScanSkip(r, ptr) ==
    LET c == {j \in (ptr + 1)..(Len(r) - 1) : r[j + 1] = None}
    IN  IF c = {} THEN Len(r) ELSE CHOOSE j \in c : \A k \in c : j <= k

\* while res[resptr] is not None: resptr += 1
\* (the index of the first None slot at or after ptr; Len(r) when there is
\* none, where res[resptr] raises IndexError)
RECURSIVE Scan(_, _)
Scan(r, ptr) ==
    IF ptr >= Len(r) THEN ptr
    ELSE IF r[ptr + 1] # None THEN Scan(r, ptr + 1) ELSE ptr

\* the number of iterations of zip(remaining_reqs, rem_res)
ZipLen(p) == Min(Len(remaining_reqs[p]), Len(rem_res[p]))

\* fn(requests) is entered: res = [], remaining_reqs = []
Enter(p, a, reqs, pv) ==
    /\ pc' = [pc EXCEPT ![p] = "lookup"]
    /\ attr' = [attr EXCEPT ![p] = a]
    /\ requests' = [requests EXCEPT ![p] = reqs]
    /\ res' = [res EXCEPT ![p] = <<>>]
    /\ remaining_reqs' = [remaining_reqs EXCEPT ![p] = <<>>]
    /\ rem_res' = [rem_res EXCEPT ![p] = <<>>]
    /\ resptr' = [resptr EXCEPT ![p] = 0]
    /\ zi' = [zi EXCEPT ![p] = 1]
    /\ err' = [err EXCEPT ![p] = "none"]
    /\ db0' = [db0 EXCEPT ![p] = dbdict]
    /\ invoked' = [invoked EXCEPT ![p] = FALSE]
    /\ prev' = [prev EXCEPT ![p] = pv]
    /\ submitted' = [submitted EXCEPT ![p] = <<>>]
    /\ wrote' = [wrote EXCEPT ![p] = <<>>]
    /\ seen' = [seen EXCEPT ![p] = <<>>]
    /\ UNCHANGED <<dbdict, origin>>

\* a caller calls CachingLM.<a>(reqs)
Call(p, a, reqs) ==
    /\ pc[p] = "idle"
    /\ Enter(p, a, reqs, NoPrev)

\* a caller whose call returned makes the identical call once more
Repeat(p) ==
    /\ pc[p] = "returned"
    /\ ~prev[p].set
    /\ Enter(p, attr[p], requests[p],
             [set |-> TRUE, res |-> res[p], invoked |-> invoked[p], db0 |-> db0[p]])

\* the call ends with exception e
Raise(p, e) ==
    /\ pc' = [pc EXCEPT ![p] = "raised"]
    /\ err' = [err EXCEPT ![p] = e]

\* what the store holds under hsh: whether the key is present, and its value
Observed(db, hsh) ==
    [present |-> hsh \in DOMAIN db,
     val |-> IF hsh \in DOMAIN db THEN db[hsh] ELSE None]

\* the lookup with the misses deduplicated: a request already among the
\* misses is not appended again
LookupDedup(p) ==
    /\ pc[p] = "lookup"
    /\ Len(res[p]) < Len(requests[p])
    /\ LET req == requests[p][Len(res[p]) + 1]
           hsh == CacheKey(attr[p], req)
       IN  IF hash_args(req).raised
           THEN /\ Raise(p, "AssertionError")
                /\ UNCHANGED <<res, remaining_reqs, seen>>
           ELSE /\ seen' = [seen EXCEPT ![p] = Append(@, Observed(dbdict, hsh))]
                /\ IF hsh \in DOMAIN dbdict
                   THEN IF dbdict[hsh] = None
                        THEN /\ Raise(p, "AssertionError")
                             /\ UNCHANGED <<res, remaining_reqs>>
                        ELSE /\ res' = [res EXCEPT ![p] = Append(@, dbdict[hsh])]
                             /\ UNCHANGED <<pc, err, remaining_reqs>>
                   ELSE /\ res' = [res EXCEPT ![p] = Append(@, None)]
                        /\ remaining_reqs' =
                               [remaining_reqs EXCEPT ![p] =
                                   IF \E j \in 1..Len(@) : @[j] = req
                                   THEN @ ELSE Append(@, req)]
                        /\ UNCHANGED <<pc, err>>
    /\ UNCHANGED <<dbdict, attr, requests, rem_res, resptr, zi, db0, invoked, prev,
                   submitted, wrote, origin>>

\* the lookup that never finds a key: every request is a miss
LookupAllMiss(p) ==
    /\ pc[p] = "lookup"
    /\ Len(res[p]) < Len(requests[p])
    /\ LET req == requests[p][Len(res[p]) + 1]
           hsh == CacheKey(attr[p], req)
       IN  IF hash_args(req).raised
           THEN /\ Raise(p, "AssertionError")
                /\ UNCHANGED <<res, remaining_reqs, seen>>
           ELSE /\ seen' = [seen EXCEPT ![p] = Append(@, Observed(dbdict, hsh))]
                /\ IF hsh \in {}
                   THEN IF dbdict[hsh] = None
                        THEN /\ Raise(p, "AssertionError")
                             /\ UNCHANGED <<res, remaining_reqs>>
                        ELSE /\ res' = [res EXCEPT ![p] = Append(@, dbdict[hsh])]
                             /\ UNCHANGED <<pc, err, remaining_reqs>>
                   ELSE /\ res' = [res EXCEPT ![p] = Append(@, None)]
                        /\ remaining_reqs' =
                               [remaining_reqs EXCEPT ![p] = Append(@, req)]
                        /\ UNCHANGED <<pc, err>>
    /\ UNCHANGED <<dbdict, attr, requests, rem_res, resptr, zi, db0, invoked, prev,
                   submitted, wrote, origin>>

\* one iteration of "for req in requests" (lines 300-310)
Lookup(p) ==
    /\ pc[p] = "lookup"
    /\ Len(res[p]) < Len(requests[p])
    /\ LET req == requests[p][Len(res[p]) + 1]
           hsh == CacheKey(attr[p], req)
       IN  IF hash_args(req).raised
           THEN /\ Raise(p, "AssertionError")
                /\ UNCHANGED <<res, remaining_reqs, seen>>
           ELSE /\ seen' = [seen EXCEPT ![p] = Append(@, Observed(dbdict, hsh))]
                /\ IF hsh \in DOMAIN dbdict
                   THEN IF dbdict[hsh] = None
                        THEN /\ Raise(p, "AssertionError")
                             /\ UNCHANGED <<res, remaining_reqs>>
                        ELSE /\ res' = [res EXCEPT ![p] = Append(@, dbdict[hsh])]
                             /\ UNCHANGED <<pc, err, remaining_reqs>>
                   ELSE /\ res' = [res EXCEPT ![p] = Append(@, None)]
                        /\ remaining_reqs' =
                               [remaining_reqs EXCEPT ![p] = Append(@, req)]
                        /\ UNCHANGED <<pc, err>>
    /\ UNCHANGED <<dbdict, attr, requests, rem_res, resptr, zi, db0, invoked, prev,
                   submitted, wrote, origin>>

\* the responses the backend may give to a list of n requests: up to n
\* results, each any value or None, or n results and one more (zip never
\* reads a result past the n-th, so one value stands for it)
Responses(n) ==
    SeqsUpTo(Results, n) \cup {Append(rr, None) : rr \in [1..n -> Results]}

\* rem_res = getattr(self.lm, attr)(remaining_reqs) returns rr; resptr = 0
BackendReturns(p, rr) ==
    /\ pc[p] = "lookup"
    /\ Len(res[p]) = Len(requests[p])
    /\ rr \in Responses(Len(remaining_reqs[p]))
    /\ invoked' = [invoked EXCEPT ![p] = TRUE]
    /\ rem_res' = [rem_res EXCEPT ![p] = rr]
    /\ resptr' = [resptr EXCEPT ![p] = 0]
    /\ zi' = [zi EXCEPT ![p] = 1]
    /\ pc' = [pc EXCEPT ![p] = "reinsert"]
    /\ submitted' = [submitted EXCEPT ![p] = remaining_reqs[p]]
    /\ UNCHANGED <<dbdict, attr, requests, res, remaining_reqs, err, db0, prev,
                   wrote, seen, origin>>

\* the first miss is given a store entry before the backend is called
BackendRaisesAfterWrite(p) ==
    /\ pc[p] = "lookup"
    /\ Len(res[p]) = Len(requests[p])
    /\ invoked' = [invoked EXCEPT ![p] = TRUE]
    /\ Raise(p, "BackendFailure")
    /\ dbdict' = IF remaining_reqs[p] = <<>> THEN dbdict
                 ELSE DbSet(dbdict, CacheKey(attr[p], remaining_reqs[p][1]), MaxValue)
    /\ submitted' = [submitted EXCEPT ![p] = remaining_reqs[p]]
    /\ UNCHANGED <<attr, requests, res, remaining_reqs, rem_res, resptr,
                   zi, db0, prev, wrote, seen, origin>>

\* getattr(self.lm, attr)(remaining_reqs) raises: nothing catches it
BackendRaises(p) ==
    /\ pc[p] = "lookup"
    /\ Len(res[p]) = Len(requests[p])
    /\ invoked' = [invoked EXCEPT ![p] = TRUE]
    /\ Raise(p, "BackendFailure")
    /\ submitted' = [submitted EXCEPT ![p] = remaining_reqs[p]]
    /\ UNCHANGED <<dbdict, attr, requests, res, remaining_reqs, rem_res, resptr,
                   zi, db0, prev, wrote, seen, origin>>

\* one iteration of "for req, r in zip(remaining_reqs, rem_res)"
Reinsert(p) ==
    /\ pc[p] = "reinsert"
    /\ zi[p] <= ZipLen(p)
    /\ LET req == remaining_reqs[p][zi[p]]
           r == rem_res[p][zi[p]]
           ptr == Scan(res[p], resptr[p])
       IN  /\ resptr' = [resptr EXCEPT ![p] = ptr]
           /\ IF ptr >= Len(res[p])
              THEN /\ Raise(p, "IndexError")
                   /\ UNCHANGED <<res, dbdict, zi, wrote, origin>>
              ELSE /\ res' = [res EXCEPT ![p][ptr + 1] = r]
                   /\ dbdict' = DbSet(dbdict, CacheKey(attr[p], req), r)
                   /\ zi' = [zi EXCEPT ![p] = @ + 1]
                   /\ wrote' = [wrote EXCEPT ![p] = Append(@, CacheKey(attr[p], req))]
                   /\ origin' = DbSet(origin, CacheKey(attr[p], req), attr[p])
                   /\ UNCHANGED <<pc, err>>
    /\ UNCHANGED <<attr, requests, remaining_reqs, rem_res, db0, invoked, prev,
                   submitted, seen>>

\* return res
Return(p) ==
    /\ pc[p] = "reinsert"
    /\ zi[p] > ZipLen(p)
    /\ pc' = [pc EXCEPT ![p] = "returned"]
    /\ UNCHANGED <<dbdict, attr, requests, res, remaining_reqs, rem_res, resptr,
                   zi, err, db0, invoked, prev, histVars>>

\* the caller is done with the list (or the exception) the call gave it
Finish(p) ==
    /\ pc[p] \in {"returned", "raised"}
    /\ pc' = [pc EXCEPT ![p] = "idle"]
    /\ attr' = [attr EXCEPT ![p] = "loglikelihood"]
    /\ requests' = [requests EXCEPT ![p] = <<>>]
    /\ res' = [res EXCEPT ![p] = <<>>]
    /\ remaining_reqs' = [remaining_reqs EXCEPT ![p] = <<>>]
    /\ rem_res' = [rem_res EXCEPT ![p] = <<>>]
    /\ resptr' = [resptr EXCEPT ![p] = 0]
    /\ zi' = [zi EXCEPT ![p] = 1]
    /\ err' = [err EXCEPT ![p] = "none"]
    /\ db0' = [db0 EXCEPT ![p] = EmptyStore]
    /\ invoked' = [invoked EXCEPT ![p] = FALSE]
    /\ prev' = [prev EXCEPT ![p] = NoPrev]
    /\ submitted' = [submitted EXCEPT ![p] = <<>>]
    /\ wrote' = [wrote EXCEPT ![p] = <<>>]
    /\ seen' = [seen EXCEPT ![p] = <<>>]
    /\ UNCHANGED <<dbdict, origin>>

\* ------------------------------------------------------------ Spec
\* one caller, as in the source: calls follow one another
Main == "p1"

Batches == SeqsUpTo(ReqPool, MaxLen)

\* no Request operation has run, nothing has been hashed
IndexNone == <<>>
NoOp == [op |-> "none", type |-> "", args |-> <<>>, index |-> IndexNone]

InitReq ==
    /\ cur = <<>>
    /\ made = <<>>
    /\ rqErr = "none"
    /\ rqOp = NoOp

InitHash ==
    /\ hargs = <<<<>>, <<>>>>
    /\ hkeys = <<>>

\* no Request object is alive, none has been compared
NoCmp == [set |-> FALSE, a |-> 0, b |-> 0, eq |-> FALSE, hasheq |-> FALSE]

InitEq ==
    /\ objs = <<>>
    /\ cmp = NoCmp

Init == InitExec /\ InitReq /\ InitHash /\ InitEq

DoCall ==
    /\ \E reqs \in Batches : Call(Main, "loglikelihood", reqs)
    /\ UNCHANGED <<reqVars, hashVars, eqVars>>
DoRepeat == Repeat(Main) /\ UNCHANGED <<reqVars, hashVars, eqVars>>
DoLookup == Lookup(Main) /\ UNCHANGED <<reqVars, hashVars, eqVars>>
DoBackendReturns ==
    /\ \E rr \in Responses(Len(remaining_reqs[Main])) : BackendReturns(Main, rr)
    /\ UNCHANGED <<reqVars, hashVars, eqVars>>
DoBackendRaises == BackendRaises(Main) /\ UNCHANGED <<reqVars, hashVars, eqVars>>
DoReinsert == Reinsert(Main) /\ UNCHANGED <<reqVars, hashVars, eqVars>>
DoReturn == Return(Main) /\ UNCHANGED <<reqVars, hashVars, eqVars>>
DoFinish == Finish(Main) /\ UNCHANGED <<reqVars, hashVars, eqVars>>

Next ==
    \/ DoCall
    \/ DoRepeat
    \/ DoLookup
    \/ DoBackendReturns
    \/ DoBackendRaises
    \/ DoReinsert
    \/ DoReturn
    \/ DoFinish

Spec == Init /\ [][Next]_vars

\* ------------------------------------------------------------ Request
\* the request-kind registry
req_ret_lens == [loglikelihood |-> 2]

\* the kind names and argument tuples the tasks construct Requests with
KindPool == {"loglikelihood", "greedy_until", "nonexistent"}
ArgsPool == {ReqA, ReqB, <<StrArg(<<97>>), StrArg(<<98>>)>>}

\* the indexes a task may pass: None, or an integer -1..MaxIndex
IndexPool == {IndexNone} \cup {<<i>> : i \in (0 - 1)..MaxIndex}

\* the constructor without the registry check
RequestInitUnchecked(type, args, index) ==
    [raised |-> FALSE, obj |-> <<[type |-> type, args |-> args, index |-> index]>>]

\* Request.__init__(self, type, args, index): raises NotImplementedError
\* for a type that is not a key of req_ret_lens, otherwise sets the fields
RequestInit(type, args, index) ==
    IF type \notin DOMAIN req_ret_lens
    THEN [raised |-> TRUE, obj |-> <<>>]
    ELSE [raised |-> FALSE, obj |-> <<[type |-> type, args |-> args, index |-> index]>>]

\* the outcome r of a constructor call reaches the task
Constructed(r, op) ==
    /\ made' = r.obj
    /\ rqErr' = IF r.raised THEN "NotImplementedError" ELSE "none"
    /\ cur' = IF r.raised THEN cur ELSE r.obj
    /\ rqOp' = op

\* Request(type, args) or Request(type, args, index), called directly
NewRequest(type, args, index) ==
    /\ Constructed(RequestInit(type, args, index),
                   [op |-> "new", type |-> type, args |-> args, index |-> index])
    /\ UNCHANGED <<execVars, hashVars, eqVars>>

\* RequestFactory.__getattr__(attr)(*args): Request(attr, args)
FactoryCall(a, args) ==
    /\ Constructed(RequestInit(a, args, IndexNone),
                   [op |-> "factory", type |-> a, args |-> args, index |-> IndexNone])
    /\ UNCHANGED <<execVars, hashVars, eqVars>>

\* Request.__getitem__(self, i) on the Request the task holds
GetItem(i) ==
    /\ cur # <<>>
    /\ LET r == RequestInit(cur[1].type, cur[1].args, <<i>>)
       IN  /\ made' = r.obj
           /\ rqErr' = IF r.raised THEN "NotImplementedError" ELSE "none"
    /\ rqOp' = [op |-> "getitem", type |-> cur[1].type, args |-> cur[1].args,
                index |-> <<i>>]
    /\ UNCHANGED <<cur, execVars, hashVars, eqVars>>

\* Request.__iter__(self), run to its end: one Request per i in
\* range(req_ret_lens[self.type])
Iterate ==
    /\ cur # <<>>
    /\ made' = [k \in 1..req_ret_lens[cur[1].type] |->
                    RequestInit(cur[1].type, cur[1].args, <<k - 1>>).obj[1]]
    /\ rqErr' = "none"
    /\ rqOp' = [op |-> "iter", type |-> cur[1].type, args |-> cur[1].args,
                index |-> cur[1].index]
    /\ UNCHANGED <<cur, execVars, hashVars, eqVars>>

DoNewRequest ==
    \E type \in KindPool, args \in ArgsPool, index \in IndexPool :
        NewRequest(type, args, index)
DoFactoryCall == \E a \in KindPool, args \in ArgsPool : FactoryCall(a, args)
DoGetItem == \E i \in (0 - 1)..MaxIndex : GetItem(i)

NextRequest ==
    \/ DoNewRequest
    \/ DoFactoryCall
    \/ DoGetItem
    \/ Iterate

SpecRequest == Init /\ [][NextRequest]_vars

\* ------------------------------------------------------------ Request ==
\* class Request defines neither __eq__ nor __hash__: it has object's, which
\* compare and hash the identity of the object
ObjectEq(a, b) == a = b
ObjectHash(a) == a

\* r1 = Request(type, args, index): one more object is alive
Allocate(type, args, index) ==
    /\ Len(objs) < MaxObjs
    /\ LET r == RequestInit(type, args, index)
       IN  objs' = IF r.raised THEN objs ELSE objs \o r.obj
    /\ cmp' = NoCmp
    /\ UNCHANGED <<execVars, reqVars, hashVars>>

\* objs[a] == objs[b] and hash(objs[a]) == hash(objs[b])
Compare(a, b) ==
    /\ a \in 1..Len(objs)
    /\ b \in 1..Len(objs)
    /\ cmp' = [set |-> TRUE, a |-> a, b |-> b, eq |-> ObjectEq(a, b),
               hasheq |-> ObjectHash(a) = ObjectHash(b)]
    /\ UNCHANGED <<objs, execVars, reqVars, hashVars>>

DoAllocate ==
    \E type \in KindPool, args \in ArgsPool, index \in IndexPool :
        Allocate(type, args, index)
DoCompare == \E a, b \in 1..MaxObjs : Compare(a, b)

NextEq ==
    \/ DoAllocate
    \/ DoCompare

SpecEq == Init /\ [][NextEq]_vars

\* ------------------------------------------------------------ hash_args
\* the strings and integers the argument tuples are drawn from
CharPool == {NUL, 48, 49, 53}
IntPool == {1, 10}
ArgPool ==
    {StrArg(st) : st \in SeqsUpTo(CharPool, MaxStrLen)} \cup {IntArg(n) : n \in IntPool}
ArgSeqs == SeqsUpTo(ArgPool, MaxArgs)

\* two argument tuples are given; nothing else has run
InitHashArgs ==
    /\ InitExec
    /\ InitReq
    /\ InitEq
    /\ hargs \in ArgSeqs \X ArgSeqs
    /\ hkeys = <<>>

\* hash_args is applied to both tuples
HashBoth ==
    /\ hkeys = <<>>
    /\ hkeys' = <<hash_args(hargs[1]), hash_args(hargs[2])>>
    /\ UNCHANGED <<hargs, execVars, reqVars, eqVars>>

NextHash == HashBoth

SpecHash == InitHashArgs /\ [][NextHash]_vars

\* ------------------------------------------------------------ operations
\* one caller forwards either attribute name: CachingLM.__getattr__ wraps
\* whatever name is asked of it
OpPool == {ReqA, ReqB}
OpBatches == SeqsUpTo(OpPool, MaxOpLen)

DoCallOp ==
    /\ \E a \in Attrs, reqs \in OpBatches : Call(Main, a, reqs)
    /\ UNCHANGED <<reqVars, hashVars, eqVars>>

NextOps ==
    \/ DoCallOp
    \/ DoLookup
    \/ DoBackendReturns
    \/ DoBackendRaises
    \/ DoReinsert
    \/ DoReturn
    \/ DoFinish

SpecOps == Init /\ [][NextOps]_vars

\* ------------------------------------------------------------ concurrency
\* two callers run fn against the one store, their steps interleaved; a
\* store operation (hsh in self.dbdict, self.dbdict[hsh], self.dbdict[hsh] = r)
\* is one step, so the membership test and the read of a lookup are two;
\* each caller makes one call, at any time
ConcPool == {ReqA, ReqB}
ConcBatches == SeqsUpTo(ConcPool, MaxConcLen)

\* hsh = attr + '_' + hash_args(req); if hsh in self.dbdict: ... else:
\* res.append(None); remaining_reqs.append(req)
Contains(p) ==
    /\ pc[p] = "lookup"
    /\ Len(res[p]) < Len(requests[p])
    /\ LET req == requests[p][Len(res[p]) + 1]
           hsh == CacheKey(attr[p], req)
       IN  IF hash_args(req).raised
           THEN /\ Raise(p, "AssertionError")
                /\ UNCHANGED <<res, remaining_reqs, seen>>
           ELSE /\ seen' = [seen EXCEPT ![p] =
                               Append(@, [present |-> hsh \in DOMAIN dbdict, val |-> None])]
                /\ IF hsh \in DOMAIN dbdict
                   THEN /\ pc' = [pc EXCEPT ![p] = "get"]
                        /\ UNCHANGED <<err, res, remaining_reqs>>
                   ELSE /\ res' = [res EXCEPT ![p] = Append(@, None)]
                        /\ remaining_reqs' =
                               [remaining_reqs EXCEPT ![p] = Append(@, req)]
                        /\ UNCHANGED <<pc, err>>
    /\ UNCHANGED <<dbdict, attr, requests, rem_res, resptr, zi, db0, invoked, prev,
                   submitted, wrote, origin>>

\* ob = self.dbdict[hsh]; assert ob is not None; res.append(ob)
Get(p) ==
    /\ pc[p] = "get"
    /\ LET req == requests[p][Len(res[p]) + 1]
           ob == dbdict[CacheKey(attr[p], req)]
       IN  /\ seen' = [seen EXCEPT ![p][Len(seen[p])].val = ob]
           /\ IF ob = None
              THEN /\ Raise(p, "AssertionError")
                   /\ UNCHANGED res
              ELSE /\ res' = [res EXCEPT ![p] = Append(@, ob)]
                   /\ pc' = [pc EXCEPT ![p] = "lookup"]
                   /\ UNCHANGED err
    /\ UNCHANGED <<dbdict, attr, requests, remaining_reqs, rem_res, resptr, zi, db0,
                   invoked, prev, submitted, wrote, origin>>

ConcCall ==
    /\ \E p \in Procs, reqs \in ConcBatches : Call(p, "loglikelihood", reqs)
    /\ UNCHANGED <<reqVars, hashVars, eqVars>>
ConcContains ==
    /\ \E p \in Procs : Contains(p)
    /\ UNCHANGED <<reqVars, hashVars, eqVars>>
ConcGet ==
    /\ \E p \in Procs : Get(p)
    /\ UNCHANGED <<reqVars, hashVars, eqVars>>
ConcBackendReturns ==
    /\ \E p \in Procs : \E rr \in Responses(Len(remaining_reqs[p])) : BackendReturns(p, rr)
    /\ UNCHANGED <<reqVars, hashVars, eqVars>>
ConcBackendRaises ==
    /\ \E p \in Procs : BackendRaises(p)
    /\ UNCHANGED <<reqVars, hashVars, eqVars>>
ConcReinsert ==
    /\ \E p \in Procs : Reinsert(p)
    /\ UNCHANGED <<reqVars, hashVars, eqVars>>
ConcReturn ==
    /\ \E p \in Procs : Return(p)
    /\ UNCHANGED <<reqVars, hashVars, eqVars>>

NextConc ==
    \/ ConcCall
    \/ ConcContains
    \/ ConcGet
    \/ ConcBackendReturns
    \/ ConcBackendRaises
    \/ ConcReinsert
    \/ ConcReturn

SpecConc == Init /\ [][NextConc]_vars

\* ------------------------------------------------------------ properties
\* the cache key of request i of the running call
KeyAt(p, i) == CacheKey(attr[p], requests[p][i])

\* request i was absent from the store when the call started
MissAt(p, i) == KeyAt(p, i) \notin DOMAIN db0[p]

\* the number of misses among requests 1..i
MissRank(p, i) == Cardinality({j \in 1..i : MissAt(p, j)})

\* the result request i is due: the value stored when the call started, or
\* the backend's result for it
Due(p, i) ==
    IF ~MissAt(p, i) THEN db0[p][KeyAt(p, i)] ELSE rem_res[p][MissRank(p, i)]

\* the backend gave one result per miss
CountMatches(p) == Len(rem_res[p]) = Len(remaining_reqs[p])

NonNull(rr) == \A i \in 1..Len(rr) : rr[i] # None

NoNullStored(db) == \A k \in DOMAIN db : db[k] # None

\* C1: a call whose backend gave one result per miss returns one result per
\* request, the result at position i being the one request i is due (the
\* value stored at lookup time for a hit, the backend's result for a miss).
OrderPreserved ==
    (pc[Main] = "returned" /\ CountMatches(Main)) =>
        /\ Len(res[Main]) = Len(requests[Main])
        /\ \A i \in 1..Len(requests[Main]) : res[Main][i] = Due(Main, i)

\* C1, where no result of the backend and no stored value is None: the
\* results are in input order.
OrderPreservedNonNull ==
    (/\ pc[Main] = "returned"
     /\ CountMatches(Main)
     /\ NonNull(rem_res[Main])
     /\ NoNullStored(db0[Main])) =>
        /\ Len(res[Main]) = Len(requests[Main])
        /\ \A i \in 1..Len(requests[Main]) : res[Main][i] = Due(Main, i)

OrderPreservedNonNullReached ==
    /\ pc[Main] = "returned"
    /\ CountMatches(Main)
    /\ NonNull(rem_res[Main])
    /\ requests[Main] = <<ReqA, ReqB, ReqA>>
    /\ DOMAIN db0[Main] = {CacheKey("loglikelihood", ReqB)}
    /\ rem_res[Main] = <<1, 2>>

\* C2: of two calls in a row with the same single request, the first on a
\* store without its key and given one non-null result, only the first
\* invokes the backend operation: the second, whose miss list is empty,
\* makes no backend invocation.
BackendInvokedOncePerKey ==
    (/\ prev[Main].set
     /\ Len(requests[Main]) = 1
     /\ prev[Main].db0 = EmptyStore
     /\ NonNull(prev[Main].res)
     /\ pc[Main] \in {"reinsert", "returned", "raised"}) =>
        /\ prev[Main].invoked
        /\ remaining_reqs[Main] = <<>>
        /\ ~invoked[Main]

\* C3: when the backend operation raises, the store is what it was when
\* the call started.
BackendFailureAtomic ==
    (pc[Main] = "raised" /\ err[Main] = "BackendFailure") =>
        dbdict = db0[Main]

BackendFailureAtomicReached ==
    /\ pc[Main] = "raised"
    /\ err[Main] = "BackendFailure"
    /\ Len(remaining_reqs[Main]) = 2
    /\ Len(requests[Main]) = 3
    /\ DOMAIN db0[Main] # {}

\* C4: a call whose backend gave a number of results other than the number
\* of misses does not return a list and writes nothing to the store.
ResultCountChecked ==
    (pc[Main] \in {"reinsert", "returned"} /\ ~CountMatches(Main)) =>
        /\ pc[Main] # "returned"
        /\ dbdict = db0[Main]

\* C5: no value held in the store is None.
NoNullPersisted == NoNullStored(dbdict)

\* the keys of the requests of a batch
BatchKeys(a, reqs) == {CacheKey(a, reqs[i]) : i \in 1..Len(reqs)}

\* C6: the repeat of a batch whose call returned returns too, with the same
\* results position by position, and the store holds the key of every
\* request of the batch.
RepeatIdentical ==
    (/\ prev[Main].set
     /\ \/ pc[Main] = "returned"
        \/ pc[Main] = "raised" /\ err[Main] # "BackendFailure") =>
        /\ pc[Main] = "returned"
        /\ res[Main] = prev[Main].res
        /\ BatchKeys(attr[Main], requests[Main]) \subseteq DOMAIN dbdict

\* equal requests of the batch have equal results
Consistent(reqs, rr) ==
    \A i, j \in 1..Len(reqs) : reqs[i] = reqs[j] => rr[i] = rr[j]

\* C6, where the first call returned no None and equal results for equal
\* requests: the repeat returns the same results.
RepeatIdenticalNonNull ==
    (/\ prev[Main].set
     /\ NonNull(prev[Main].res)
     /\ Consistent(requests[Main], prev[Main].res)
     /\ \/ pc[Main] = "returned"
        \/ pc[Main] = "raised" /\ err[Main] # "BackendFailure") =>
        /\ pc[Main] = "returned"
        /\ res[Main] = prev[Main].res
        /\ BatchKeys(attr[Main], requests[Main]) \subseteq DOMAIN dbdict
        /\ remaining_reqs[Main] = <<>>

RepeatIdenticalNonNullReached ==
    /\ prev[Main].set
    /\ pc[Main] = "returned"
    /\ requests[Main] = <<ReqA, ReqB, ReqA>>
    /\ prev[Main].db0 = EmptyStore
    /\ prev[Main].res = <<1, 2, 1>>
    /\ Cardinality(DOMAIN dbdict) = 2

\* request req holds an argument that is neither a string nor an integer
IllTyped(req) == \E a \in 1..Len(req) : req[a].t \notin {"str", "int"}

\* C9: a call whose batch holds an argument that is neither a str nor an
\* int never gets past the lookup of the offending request: it does not
\* invoke the backend, does not return and leaves the store as it was.
IllTypedFailsFirst ==
    \A i \in 1..Len(requests[Main]) :
        IllTyped(requests[Main][i]) =>
            /\ ~invoked[Main]
            /\ dbdict = db0[Main]
            /\ pc[Main] \in {"lookup", "raised"}
            /\ Len(res[Main]) < i
            /\ pc[Main] = "raised" => err[Main] = "AssertionError"

IllTypedFailsFirstReached ==
    /\ pc[Main] = "raised"
    /\ err[Main] = "AssertionError"
    /\ requests[Main] = <<ReqA, ReqB, ReqBad>>
    /\ res[Main] = <<1, None>>

\* the executor is as constructed: empty store, no call, backend untouched
ExecUntouched ==
    /\ dbdict = EmptyStore
    /\ \A p \in Procs : pc[p] = "idle" /\ ~invoked[p]

\* C7: a construction (direct or through the factory) with a kind that is
\* not in the registry raises and yields no Request; with a registered kind
\* it yields the Request of that kind and arguments, with index None unless
\* an index was passed; neither touches the store or the backend.
UnregisteredKindRejected ==
    rqOp.op \in {"new", "factory"} =>
        /\ ExecUntouched
        /\ IF rqOp.type \in DOMAIN req_ret_lens
           THEN /\ rqErr = "none"
                /\ made = <<[type |-> rqOp.type, args |-> rqOp.args,
                             index |-> rqOp.index]>>
                /\ rqOp.op = "factory" => made[1].index = IndexNone
           ELSE /\ rqErr = "NotImplementedError"
                /\ made = <<>>

UnregisteredKindRejectedReached ==
    /\ rqOp.op = "factory"
    /\ rqOp.type = "nonexistent"
    /\ rqErr = "NotImplementedError"
    /\ made = <<>>
    /\ cur # <<>>

\* C8: iterating a Request of a kind with N result components yields N
\* sub-requests with indexes 0..N-1 in order, and a sub-request got by
\* indexing or iterating has the kind and arguments of the Request and an
\* index in [0, N).
SubRequestsInRange ==
    rqOp.op \in {"getitem", "iter"} =>
        /\ rqOp.op = "iter" => Len(made) = req_ret_lens[rqOp.type]
        /\ \A k \in 1..Len(made) :
              /\ made[k].type = rqOp.type
              /\ made[k].args = rqOp.args
              /\ Len(made[k].index) = 1
              /\ made[k].index[1] >= 0
              /\ made[k].index[1] < req_ret_lens[rqOp.type]
              /\ rqOp.op = "iter" => made[k].index[1] = k - 1

\* C8 for iteration alone: N sub-requests, indexes 0..N-1 in order.
IterationInRange ==
    rqOp.op = "iter" =>
        /\ Len(made) = req_ret_lens[rqOp.type]
        /\ \A k \in 1..Len(made) :
              made[k] = [type |-> rqOp.type, args |-> rqOp.args, index |-> <<k - 1>>]

\* C10: hashing the same argument tuple twice gives the same key, and two
\* different tuples of strings and integers give different keys.
SerializationUnambiguous ==
    hkeys # <<>> =>
        /\ ~hkeys[1].raised /\ ~hkeys[2].raised
        /\ (hargs[1] = hargs[2]) <=> (hkeys[1].hex = hkeys[2].hex)

\* no argument is an integer and no string holds the NUL character
NulFreeStrings(args) ==
    \A i \in 1..Len(args) :
        /\ args[i].t = "str"
        /\ \A c \in 1..Len(args[i].s) : args[i].s[c] # NUL

\* C10 for tuples of NUL-free strings: different tuples, different keys.
SerializationUnambiguousNulFree ==
    (hkeys # <<>> /\ NulFreeStrings(hargs[1]) /\ NulFreeStrings(hargs[2])) =>
        ((hargs[1] = hargs[2]) <=> (hkeys[1].hex = hkeys[2].hex))

SerializationUnambiguousNulFreeReached ==
    /\ hkeys # <<>>
    /\ hargs[1] = <<StrArg(<<49, 48>>), StrArg(<<53>>)>>
    /\ hargs[2] = <<StrArg(<<49>>), StrArg(<<48, 53>>)>>
    /\ hkeys[1] # hkeys[2]

\* C11: two Requests compare equal exactly when their (kind, arguments,
\* index) are identical, whichever construction calls made them, and
\* Requests with identical fields hash equal.
EqualityByFields ==
    cmp.set =>
        /\ cmp.eq <=> (objs[cmp.a] = objs[cmp.b])
        /\ (objs[cmp.a] = objs[cmp.b]) => cmp.hasheq

\* C11, the half that holds: Requests that differ in a field compare
\* unequal, and a Request equals itself.
DifferentFieldsUnequal ==
    cmp.set =>
        /\ (objs[cmp.a] # objs[cmp.b]) => ~cmp.eq
        /\ (cmp.a = cmp.b) => (cmp.eq /\ cmp.hasheq)

DifferentFieldsUnequalReached ==
    /\ cmp.set
    /\ objs[cmp.a] # objs[cmp.b]
    /\ objs[cmp.a].args = objs[cmp.b].args
    /\ ~cmp.eq

\* the requests of the batch whose key was absent when the call started, in
\* input order, each as often as it occurs
MissesOf(p) ==
    LET F[i \in 0..Len(requests[p])] ==
            IF i = 0 THEN <<>>
            ELSE IF MissAt(p, i) THEN Append(F[i - 1], requests[p][i]) ELSE F[i - 1]
    IN  F[Len(requests[p])]

\* C12: the list handed to the backend is the subsequence of the input
\* requests whose key was absent from the store at lookup time, in input
\* order and not deduplicated.
MissSubsequence ==
    invoked[Main] => submitted[Main] = MissesOf(Main)

MissSubsequenceReached ==
    /\ invoked[Main]
    /\ requests[Main] = <<ReqA, ReqB, ReqA>>
    /\ DOMAIN db0[Main] = {CacheKey("loglikelihood", ReqB)}
    /\ submitted[Main] = <<ReqA, ReqA>>

\* sequence s holds no element twice
NoDuplicates(s) == \A i, j \in 1..Len(s) : s[i] = s[j] => i = j

\* C13: in a call whose backend gave one non-null result per miss, no key
\* is written twice and no key already in the store is written.
WrittenAtMostOnce ==
    (/\ CountMatches(Main)
     /\ NonNull(rem_res[Main])
     /\ NoNullStored(db0[Main])) =>
        /\ NoDuplicates(wrote[Main])
        /\ \A j \in 1..Len(wrote[Main]) : wrote[Main][j] \notin DOMAIN db0[Main]

\* C13 as amended: a call writes the keys of its misses in order, one write
\* per occurrence of a request among the misses and none for a key that was
\* in the store when the call started; a written key is in the store, so no
\* later call writes it.
WrittenOncePerMiss ==
    /\ Len(wrote[Main]) <= Len(MissesOf(Main))
    /\ \A j \in 1..Len(wrote[Main]) :
          /\ wrote[Main][j] = CacheKey(attr[Main], MissesOf(Main)[j])
          /\ wrote[Main][j] \notin DOMAIN db0[Main]
          /\ wrote[Main][j] \in DOMAIN dbdict
    /\ (pc[Main] = "returned" /\ CountMatches(Main)) =>
          Len(wrote[Main]) = Len(MissesOf(Main))

WrittenOncePerMissReached ==
    /\ pc[Main] = "returned"
    /\ requests[Main] = <<ReqA, ReqB, ReqA>>
    /\ DOMAIN db0[Main] = {CacheKey("loglikelihood", ReqB)}
    /\ rem_res[Main] = <<1, 2>>
    /\ wrote[Main] = <<CacheKey("loglikelihood", ReqA), CacheKey("loglikelihood", ReqA)>>
    /\ dbdict[CacheKey("loglikelihood", ReqA)] = 2

\* the keys of the misses of the running call
MissKeys(p) ==
    {CacheKey(attr[p], MissesOf(p)[j]) : j \in 1..Len(MissesOf(p))}

\* C14: no step of an executor call removes a key from the store, changes
\* the value of a key that is not the key of one of the call's misses, or
\* adds a key that is not; the set of stored keys only grows.
StoreFramePreserved ==
    [][/\ DOMAIN dbdict \subseteq DOMAIN dbdict'
       /\ \A k \in DOMAIN dbdict :
             dbdict'[k] # dbdict[k] => k \in MissKeys(Main)
       /\ \A k \in DOMAIN dbdict' \ DOMAIN dbdict : k \in MissKeys(Main)]_vars

StoreFramePreservedReached ==
    /\ pc[Main] = "returned"
    /\ requests[Main] = <<ReqB, ReqA, ReqB>>
    /\ DOMAIN db0[Main] = {CacheKey("loglikelihood", ReqB)}
    /\ DOMAIN dbdict = {CacheKey("loglikelihood", ReqA), CacheKey("loglikelihood", ReqB)}
    /\ dbdict[CacheKey("loglikelihood", ReqB)] = db0[Main][CacheKey("loglikelihood", ReqB)]
    /\ res[Main] = <<2, 1, 2>>

\* C17: in the reinsertion loop the slot pointer never moves backwards and
\* never runs past the end of the output list: every slot before it is
\* resolved, no placement raises IndexError, and while a result is still to
\* be placed an unresolved slot lies at or after it.
PointerInRange ==
    /\ [](pc[Main] \in {"reinsert", "returned", "raised"} =>
            /\ resptr[Main] >= 0
            /\ resptr[Main] <= Len(res[Main])
            /\ err[Main] # "IndexError"
            /\ \A j \in 1..resptr[Main] : res[Main][j] # None
            /\ (pc[Main] = "reinsert" /\ zi[Main] <= ZipLen(Main)) =>
                  \E j \in (resptr[Main] + 1)..Len(res[Main]) : res[Main][j] = None)
    /\ [][pc'[Main] = "reinsert" => resptr'[Main] >= resptr[Main]]_vars

PointerInRangeReached ==
    /\ pc[Main] = "reinsert"
    /\ requests[Main] = <<ReqA, ReqB, ReqA>>
    /\ DOMAIN db0[Main] = {CacheKey("loglikelihood", ReqB)}
    /\ rem_res[Main] = <<None, 1, None>>
    /\ zi[Main] = 3
    /\ resptr[Main] = 0
    /\ res[Main] = <<1, 2, None>>

\* C16: the same argument tuple has different cache keys under different
\* operation names, and every request a call finds in the store was written
\* there by a call of the same operation name: a value cached by one
\* operation is never a hit for another.
KeyPerOperation ==
    /\ \A a1, a2 \in Attrs : \A r \in OpPool :
          a1 # a2 => CacheKey(a1, r) # CacheKey(a2, r)
    /\ \A i \in 1..Len(seen[Main]) :
          seen[Main][i].present => origin[KeyAt(Main, i)] = attr[Main]

\* ("a",) is cached under greedy_until, and a loglikelihood call for ("a",)
\* has missed it and returned
KeyPerOperationReached ==
    /\ pc[Main] = "returned"
    /\ attr[Main] = "loglikelihood"
    /\ requests[Main] = <<ReqA>>
    /\ CacheKey("greedy_until", ReqA) \in DOMAIN db0[Main]
    /\ db0[Main][CacheKey("greedy_until", ReqA)] = 1
    /\ seen[Main] = <<Observed(EmptyStore, CacheKey("loglikelihood", ReqA))>>
    /\ res[Main] = <<2>>

\* request i of caller p's call was absent from the store when the call
\* tested for it
ConcMissAt(p, i) == ~seen[p][i].present

ConcMissRank(p, i) == Cardinality({j \in 1..i : ConcMissAt(p, j)})

\* the result request i is due: the value the call read from the store, or
\* the backend's result for it
ConcDue(p, i) ==
    IF ConcMissAt(p, i) THEN rem_res[p][ConcMissRank(p, i)] ELSE seen[p][i].val

InOrder(p) ==
    /\ Len(res[p]) = Len(requests[p])
    /\ \A i \in 1..Len(requests[p]) : res[p][i] = ConcDue(p, i)

\* a write of caller p leaves its result in the store
WriteLands(p) ==
    Len(wrote'[p]) > Len(wrote[p]) =>
        dbdict'[wrote'[p][Len(wrote'[p])]] = rem_res[p][zi[p]]

\* C15: of two calls interleaved on the one store, each that returns (its
\* backend having given one result per miss) returns one result per request,
\* the result at position i being the one request i is due; and every write
\* leaves its value in the store, so a key both calls write ends with the
\* value of the later write.
ConcurrentOrder ==
    /\ [](\A p \in Procs : (pc[p] = "returned" /\ CountMatches(p)) => InOrder(p))
    /\ [][\A p \in Procs : WriteLands(p)]_vars

\* C15, where no result of the call's own backend is None.
ConcurrentOrderNonNull ==
    /\ [](\A p \in Procs :
            (pc[p] = "returned" /\ CountMatches(p) /\ NonNull(rem_res[p])) => InOrder(p))
    /\ [][\A p \in Procs : WriteLands(p)]_vars

\* both calls missed ("a",) and both wrote it, p2 last; p1 read ("b",)
\* from the store after p2 had written it
ConcurrentOrderNonNullReached ==
    /\ pc = [p \in Procs |-> "returned"]
    /\ requests["p1"] = <<ReqA, ReqB>>
    /\ requests["p2"] = <<ReqB, ReqA>>
    /\ rem_res["p1"] = <<1>>
    /\ rem_res["p2"] = <<2, 2>>
    /\ res["p1"] = <<1, 2>>
    /\ res["p2"] = <<2, 2>>
    /\ seen["p1"][1].present = FALSE
    /\ dbdict[CacheKey("loglikelihood", ReqA)] = 2

====
